---- MODULE Spec2Model ----
(***************************************************************************)
(* A model of gorepo: root resolution (getRootPath), module discovery      *)
(* (Config.GetModules) and the `run`, `list` and `init` commands.          *)
(*                                                                         *)
(* Representation                                                          *)
(*   - a string whose bytes matter (a module name, the --target value) is  *)
(*     a sequence of byte codes, so that strings.Split and Go's `<` on     *)
(*     strings are computed and not assumed;                               *)
(*   - a directory on the way from the filesystem root to the working      *)
(*     directory is its depth: 0 is the filesystem root, the parent of d   *)
(*     is d - 1 and the parent of 0 is 0 (filepath.Dir("/") = "/");        *)
(*   - a relative path is the sequence of its segments;                    *)
(*   - `walk` is the sequence of module folders (folders holding a         *)
(*     module.toml) below ROOT, in the order filepath.Walk meets them.     *)
(***************************************************************************)
EXTENDS Integers, Sequences, FiniteSets, TLC

VARIABLES
    wd,           \* Runtime.WD: depth of the working directory
    marked,       \* depths of the directories that hold a work.toml
    walk,         \* module folders below ROOT in walk order
    pc,           \* "start" | "ready" | "done": position of the process
    ROOT,         \* Runtime.ROOT
    cmd,          \* command that ran: "none" | "run" | "list"
    scriptName,   \* c.Args().Get(0)
    target,       \* c.String("target"), bytes
    allowMissing, \* c.Bool("allow-missing")
    dryRun,       \* c.Bool("dry-run")
    walked,       \* GetModules has been called by this process
    allModules,   \* local allModules of Run / modules of List
    modules,      \* local modules of Run: the targeted modules
    err,          \* error the process returns, "none" for nil
    errDetail,    \* module names the error message lists
    errDir,       \* relative path of the module whose script failed
    execLog,      \* relative paths BashCommand was invoked on, in order
    printed,      \* lines List wrote with DefaultLn, in order
    goWork,       \* depths of the directories that hold a go.work
    docs,         \* the root document in each marked directory
    history       \* the init commands that ran, oldest first

vars == <<wd, marked, walk, pc, ROOT, cmd, scriptName, target, allowMissing,
          dryRun, walked, allModules, modules, err, errDetail, errDir,
          execLog, printed, goWork, docs, history>>

----------------------------------------------------------------------------
(* Bounds *)

MaxDepth == 9       \* deepest working directory
MaxModules == 3     \* most module folders in a walk
MaxTargets == 2     \* most tokens in a --target value
MaxInits == 2       \* most init commands in a behaviour

----------------------------------------------------------------------------
(* Program constants and literals *)

MaxRecursion == 7
Comma == 44
Newline == 10

RootToken == <<114, 111, 111, 116>>     \* "root"
AllToken == <<97, 108, 108>>            \* "all"
NameA == <<97>>                         \* "a"
NameB == <<98>>                         \* "b"
NameX == <<120>>                        \* "x"
Dot == <<46>>                           \* "."

NoDir == -1                             \* the empty path ""

ScriptNames == {"build"}
ScriptBodies == {"", "make"}

\* the module folders a repository of the model may hold: a, b and x/a
\* (x/a has the same base name as a)
FolderPaths == {<<NameA>>, <<NameB>>, <<NameX, NameA>>}

Tokens == {RootToken, AllToken, NameA, NameB}

----------------------------------------------------------------------------
(* Strings *)

RECURSIVE SplitFrom(_, _, _, _)
SplitFrom(s, i, cur, acc) ==
    IF i > Len(s) THEN Append(acc, cur)
    ELSE IF s[i] = Comma THEN SplitFrom(s, i + 1, <<>>, Append(acc, cur))
    ELSE SplitFrom(s, i + 1, Append(cur, s[i]), acc)

\* strings.Split(s, ",")
Split(s) == SplitFrom(s, 1, <<>>, <<>>)

RECURSIVE JoinFrom(_, _)
JoinFrom(toks, i) ==
    IF i > Len(toks) THEN <<>>
    ELSE IF i = 1 THEN toks[1] \o JoinFrom(toks, 2)
    ELSE <<Comma>> \o toks[i] \o JoinFrom(toks, i + 1)

\* strings.Join(toks, ",")
Join(toks) == JoinFrom(toks, 1)

RECURSIVE StrLessFrom(_, _, _)
StrLessFrom(s, t, i) ==
    IF i > Len(t) THEN FALSE
    ELSE IF i > Len(s) THEN TRUE
    ELSE IF s[i] < t[i] THEN TRUE
    ELSE IF s[i] > t[i] THEN FALSE
    ELSE StrLessFrom(s, t, i + 1)

\* s < t on Go strings: bytewise lexicographic
StrLess(s, t) == StrLessFrom(s, t, 1)

\* filepath.Base of a relative path
Base(path) == IF path = <<>> THEN Dot ELSE path[Len(path)]

----------------------------------------------------------------------------
(* Root resolution *)

\* filepath.Dir on the chain of ancestors
Dir(d) == IF d = 0 THEN 0 ELSE d - 1

\* Fs.Exists(filepath.Join(dir, "work.toml"))
Exists(dir, mk) == dir \in mk

\* variant: the loop runs while i < MaxRecursion
HopsExhausted_OneShort(i) == i >= MaxRecursion

\* variant: the loop runs once more, while i <= MaxRecursion + 1
HopsExhausted_OneMore(i) == i > MaxRecursion + 1

\* the loop condition i <= MaxRecursion, negated
HopsExhausted(i) == i > MaxRecursion

\* variant: the boundary returns the directory the search stands on
BoundaryResult_CurrentDir(wdir, currentDir) ==
    [root |-> currentDir, err |-> "none"]

\* what the search returns when it meets the filesystem boundary
BoundaryResult(wdir, currentDir) == [root |-> wdir, err |-> "none"]

RECURSIVE getRootPathLoop(_, _, _, _)
getRootPathLoop(i, currentDir, wdir, mk) ==
    IF HopsExhausted(i) THEN [root |-> NoDir, err |-> "root not found"]
    ELSE IF Exists(currentDir, mk) THEN [root |-> currentDir, err |-> "none"]
    ELSE IF Dir(currentDir) = currentDir THEN BoundaryResult(wdir, currentDir)
    ELSE getRootPathLoop(i + 1, Dir(currentDir), wdir, mk)

getRootPath(wdir, mk) ==
    IF wdir = NoDir THEN [root |-> NoDir, err |-> "no working directory"]
    ELSE getRootPathLoop(0, wdir, wdir, mk)

\* Config.RootConfigExists
RootConfigExists(root, mk) == Exists(root, mk)

----------------------------------------------------------------------------
(* Module discovery *)

\* Config.LoadModuleConfig: the scripts come from the document, the name
\* and the relative path from the path
LoadModuleConfig(entry) ==
    [Name |-> Base(entry.path), RelativePath |-> entry.path,
     Scripts |-> entry.scripts]

\* the callback of filepath.Walk over the module folders; failAt = k makes
\* the k-th folder fail (walk error, read error or decode error), 0 none
RECURSIVE WalkFrom(_, _, _, _)
WalkFrom(entries, k, failAt, acc) ==
    IF k > Len(entries) THEN [modules |-> acc, err |-> "none"]
    ELSE IF k = failAt THEN [modules |-> acc, err |-> "walk"]
    ELSE WalkFrom(entries, k + 1, failAt,
                  Append(acc, LoadModuleConfig(entries[k])))

\* variant: the comparison is written the other way round
less_Reversed(mi, mj) == StrLess(mj.Name, mi.Name)

\* the less function given to sort.Slice
less(mi, mj) == StrLess(mi.Name, mj.Name)

Swap(data, i, j) ==
    [data EXCEPT ![i] = data[j], ![j] = data[i]]

RECURSIVE InsertDown(_, _)
InsertDown(data, j) ==
    IF j > 1 /\ less(data[j], data[j - 1])
    THEN InsertDown(Swap(data, j, j - 1), j - 1)
    ELSE data

RECURSIVE InsertionSortFrom(_, _)
InsertionSortFrom(data, i) ==
    IF i > Len(data) THEN data
    ELSE InsertionSortFrom(InsertDown(data, i), i + 1)

\* sort.Slice on a slice shorter than 12: insertion sort
SortSlice(data) == InsertionSortFrom(data, 2)

\* Config.GetModules
GetModules(entries, failAt) ==
    LET w == WalkFrom(entries, 1, failAt, <<>>)
    IN  IF w.err # "none" THEN w
        ELSE [modules |-> SortSlice(w.modules), err |-> "none"]

----------------------------------------------------------------------------
(* The run command *)

RECURSIVE containsFrom(_, _, _)
containsFrom(s, e, i) ==
    IF i > Len(s) THEN FALSE
    ELSE IF s[i] = e THEN TRUE
    ELSE containsFrom(s, e, i + 1)

\* variant: only the first element is compared
contains_FirstOnly(s, e) == Len(s) > 0 /\ s[1] = e

contains(s, e) == containsFrom(s, e, 1)

\* the loop that rejects "root" among several targets
RECURSIVE RootConflictFrom(_, _)
RootConflictFrom(targets, i) ==
    IF i > Len(targets) THEN FALSE
    ELSE IF targets[i] = RootToken /\ Len(targets) > 1 THEN TRUE
    ELSE RootConflictFrom(targets, i + 1)

\* variant: root is looked for in the first position only
RootConflict_FirstOnly(targets) ==
    targets[1] = RootToken /\ Len(targets) > 1

RootConflict(targets) == RootConflictFrom(targets, 1)

\* the condition under which a discovered module is targeted
Targeted(targets, module) ==
    targets[1] = AllToken \/ contains(targets, module.Name)

RECURSIVE SelectFrom(_, _, _, _)
SelectFrom(all, targets, i, acc) ==
    IF i > Len(all) THEN acc
    ELSE IF Targeted(targets, all[i])
         THEN SelectFrom(all, targets, i + 1, Append(acc, all[i]))
         ELSE SelectFrom(all, targets, i + 1, acc)

\* module.Scripts[scriptName]: "" when the key is absent
ScriptOf(module, name) ==
    IF name \in DOMAIN module.Scripts THEN module.Scripts[name] ELSE ""

\* the condition under which a module counts as lacking the script
LacksScript(module, name) ==
    name \notin DOMAIN module.Scripts \/ module.Scripts[name] = ""

RECURSIVE WithoutScriptFrom(_, _, _, _)
WithoutScriptFrom(mods, name, i, acc) ==
    IF i > Len(mods) THEN acc
    ELSE IF LacksScript(mods[i], name)
         THEN WithoutScriptFrom(mods, name, i + 1, Append(acc, mods[i].Name))
         ELSE WithoutScriptFrom(mods, name, i + 1, acc)

\* variant: a partly missing script is let through without allow-missing
Policy_NeverStrict(nWithout, nModules, am) ==
    IF nWithout = nModules THEN "missing in all" ELSE "none"

\* variant: allow-missing also lets through a script missing everywhere
Policy_AllowAllMissing(nWithout, nModules, am) ==
    IF nWithout > 0 /\ ~am
    THEN (IF nWithout = nModules THEN "missing in all" ELSE "missing in some")
    ELSE "none"

\* variant: an empty target list counts as nothing missing
Policy_EmptyPasses(nWithout, nModules, am) ==
    IF nModules > 0 /\ nWithout = nModules THEN "missing in all"
    ELSE IF nWithout > 0 /\ ~am THEN "missing in some"
    ELSE "none"

\* the outcome of the policy on the number of modules without the script:
\* an error, or "none" to go on to the execution loop
Policy(nWithout, nModules, am) ==
    IF nWithout = nModules THEN "missing in all"
    ELSE IF nWithout > 0 /\ ~am THEN "missing in some"
    ELSE "none"

\* variant: the empty script is not skipped
Invokes_EmptyToo(script, dr) == ~dr

\* variant: dry-run is not looked at
Invokes_DespiteDryRun(script, dr) == script # ""

\* whether the execution loop hands the script to BashCommand
Invokes(script, dr) == script # "" /\ ~dr

\* variant: a failed script does not stop the loop, the error is kept for
\* the end
RECURSIVE ExecFrom_KeepGoing(_, _, _, _, _, _)
ExecFrom_KeepGoing(mods, name, dr, bashFailAt, i, log) ==
    IF i > Len(mods)
    THEN IF bashFailAt > 0 /\ Len(log) >= bashFailAt
         THEN [execLog |-> log, err |-> "exec", errDir |-> log[bashFailAt]]
         ELSE [execLog |-> log, err |-> "none", errDir |-> <<>>]
    ELSE IF ~Invokes(ScriptOf(mods[i], name), dr)
         THEN ExecFrom_KeepGoing(mods, name, dr, bashFailAt, i + 1, log)
    ELSE ExecFrom_KeepGoing(mods, name, dr, bashFailAt, i + 1,
                            Append(log, mods[i].RelativePath))

\* the execution loop; bashFailAt = k makes the k-th BashCommand call
\* return an error, 0 none
RECURSIVE ExecFrom(_, _, _, _, _, _)
ExecFrom(mods, name, dr, bashFailAt, i, log) ==
    IF i > Len(mods) THEN [execLog |-> log, err |-> "none", errDir |-> <<>>]
    ELSE IF ~Invokes(ScriptOf(mods[i], name), dr)
         THEN ExecFrom(mods, name, dr, bashFailAt, i + 1, log)
    ELSE LET log2 == Append(log, mods[i].RelativePath)
         IN  IF Len(log2) = bashFailAt
             THEN [execLog |-> log2, err |-> "exec",
                   errDir |-> mods[i].RelativePath]
             ELSE ExecFrom(mods, name, dr, bashFailAt, i + 1, log2)

Outcome(w, all, mods, e, detail, dir, log) ==
    [walked |-> w, allModules |-> all, modules |-> mods, err |-> e,
     errDetail |-> detail, errDir |-> dir, execLog |-> log]

\* Commands.Run
RunHandler(rootExists, name, expr, am, dr, entries, failAt, bashFailAt) ==
    IF ~rootExists
    THEN Outcome(FALSE, <<>>, <<>>, "monorepo not found", <<>>, <<>>, <<>>)
    ELSE IF name = ""
    THEN Outcome(FALSE, <<>>, <<>>, "no script name", <<>>, <<>>, <<>>)
    ELSE LET targets == Split(expr) IN
    IF RootConflict(targets)
    THEN Outcome(FALSE, <<>>, <<>>, "root and modules", <<>>, <<>>, <<>>)
    ELSE IF targets[1] = RootToken
    THEN Outcome(FALSE, <<>>, <<>>, "none", <<>>, <<>>, <<>>)
    ELSE LET g == GetModules(entries, failAt) IN
    IF g.err # "none"
    THEN Outcome(TRUE, <<>>, <<>>, g.err, <<>>, <<>>, <<>>)
    ELSE LET all == g.modules
             mods == SelectFrom(all, targets, 1, <<>>)
             without == WithoutScriptFrom(mods, name, 1, <<>>)
             p == Policy(Len(without), Len(mods), am)
         IN
    IF p = "missing in all"
    THEN Outcome(TRUE, all, mods, p, <<>>, <<>>, <<>>)
    ELSE IF p = "missing in some"
    THEN Outcome(TRUE, all, mods, p, without, <<>>, <<>>)
    ELSE LET x == ExecFrom(mods, name, dr, bashFailAt, 1, <<>>)
         IN  Outcome(TRUE, all, mods, x.err, <<>>, x.errDir, x.execLog)

----------------------------------------------------------------------------
(* The list command *)

RECURSIVE NamesFrom(_, _)
NamesFrom(mods, i) ==
    IF i > Len(mods) THEN <<>>
    ELSE <<mods[i].Name>> \o NamesFrom(mods, i + 1)

\* Commands.List
ListHandler(rootExists, entries, failAt) ==
    IF ~rootExists
    THEN [walked |-> FALSE, allModules |-> <<>>, err |-> "monorepo not found",
          printed |-> <<>>]
    ELSE LET g == GetModules(entries, failAt) IN
    IF g.err # "none"
    THEN [walked |-> TRUE, allModules |-> <<>>, err |-> g.err,
          printed |-> <<>>]
    ELSE [walked |-> TRUE, allModules |-> g.modules, err |-> "none",
          printed |-> NamesFrom(g.modules, 1)]

----------------------------------------------------------------------------
(* The init command *)

Whitespace == {9, 10, 11, 12, 13, 32}

YesAnswer == <<121>>                    \* "y"

RECURSIVE TrimLeft(_)
TrimLeft(s) ==
    IF s # <<>> /\ Head(s) \in Whitespace THEN TrimLeft(Tail(s)) ELSE s

RECURSIVE TrimRight(_)
TrimRight(s) ==
    IF s # <<>> /\ s[Len(s)] \in Whitespace
    THEN TrimRight(SubSeq(s, 1, Len(s) - 1))
    ELSE s

\* strings.TrimSpace
TrimSpace(s) == TrimRight(TrimLeft(s))

\* reader.ReadString('\n') returns an error when the input ends before a
\* newline; resp is what it read
ReadErr(resp) == resp = <<>> \/ resp[Len(resp)] # Newline

\* filepath.Base of a directory of the chain: "/" for the filesystem
\* root, "d1", "d2", ... below it
DirName(d) == IF d = 0 THEN <<47>> ELSE <<100, 48 + d>>

\* a root document found on disk before any init of the behaviour
PreDoc ==
    [Name |-> NameB, Version |-> "0.1.0", Strategy |-> "workspace",
     Vendor |-> FALSE, Complete |-> TRUE]

InitOutcome(e, effects, doc, goCreated, vendorLine) ==
    [err |-> e, effects |-> effects, doc |-> doc, goCreated |-> goCreated,
     vendorLine |-> vendorLine]

\* Config.WriteRootConfig and the file it leaves: writeRes is "ok",
\* "open failed" (encode or open error, no file) or "write failed" (the file
\* is created, its content is incomplete)
WriteStep(rootConfig, writeRes, effects, goCreated, vendorLine) ==
    LET done == Append(effects, "write work.toml")
    IN  IF writeRes = "ok"
        THEN InitOutcome("none", done, <<rootConfig>>, goCreated, vendorLine)
        ELSE IF writeRes = "open failed"
        THEN InitOutcome("write", done, <<>>, goCreated, vendorLine)
        ELSE InitOutcome("write", done,
                         <<[rootConfig EXCEPT !.Complete = FALSE]>>,
                         goCreated, vendorLine)

\* variant: the root document is written before the workspace is handled
InitFinish_WriteFirst(rootConfig, goExists, goOk, writeRes, vendorLine) ==
    LET w == WriteStep(rootConfig, writeRes, <<>>, FALSE, vendorLine)
    IN  IF w.err # "none" \/ goExists THEN w
        ELSE IF ~goOk
        THEN InitOutcome("go", Append(w.effects, "go work init"), w.doc,
                         FALSE, vendorLine)
        ELSE InitOutcome("none", Append(w.effects, "go work init"), w.doc,
                         TRUE, vendorLine)

\* Commands.Init from "handle go workspace" on: goExists is
\* GoWorkspaceExists(), goOk whether `go work init` succeeds
InitFinish(rootConfig, goExists, goOk, writeRes, vendorLine) ==
    IF rootConfig.Strategy = "workspace"
    THEN IF ~goExists
         THEN IF ~goOk
              THEN InitOutcome("go", <<"go work init">>, <<>>, FALSE,
                               vendorLine)
              ELSE WriteStep(rootConfig, writeRes, <<"go work init">>, TRUE,
                             vendorLine)
         ELSE WriteStep(rootConfig, writeRes, <<>>, FALSE, vendorLine)
    ELSE IF rootConfig.Strategy = "rewrite"
    THEN InitOutcome("rewrite unsupported", <<>>, <<>>, FALSE, vendorLine)
    ELSE InitOutcome("invalid strategy", <<>>, <<>>, FALSE, vendorLine)

\* Commands.Init after the guard: the prompts, then the workspace and the
\* root document
InitBody(nameArg, nameResp, vendorResp, defaultName, goExists, goOk, writeRes) ==
    IF nameArg = <<>> /\ ReadErr(nameResp)
    THEN InitOutcome("read input", <<>>, <<>>, FALSE, <<>>)
    ELSE LET name == IF nameArg # <<>> THEN nameArg
                     ELSE IF TrimSpace(nameResp) = <<>> THEN defaultName
                     ELSE TrimSpace(nameResp)
         IN
    IF ReadErr(vendorResp)
    THEN InitOutcome("read input", <<>>, <<>>, FALSE, vendorResp)
    ELSE InitFinish([Name |-> name, Version |-> "0.1.0",
                     Strategy |-> "workspace",
                     Vendor |-> (TrimSpace(vendorResp) = YesAnswer),
                     Complete |-> TRUE],
                    goExists, goOk, writeRes, vendorResp)

\* variant: the guard on the existing root document is left out
InitHandler_NoGuard(exists, nameArg, nameResp, vendorResp, defaultName, goExists, goOk, writeRes) ==
    InitBody(nameArg, nameResp, vendorResp, defaultName, goExists, goOk,
             writeRes)

\* Commands.Init
InitHandler(exists, nameArg, nameResp, vendorResp, defaultName, goExists, goOk, writeRes) ==
    IF exists
    THEN InitOutcome("already exists", <<>>, <<>>, FALSE, <<>>)
    ELSE InitBody(nameArg, nameResp, vendorResp, defaultName, goExists,
                  goOk, writeRes)

----------------------------------------------------------------------------
(* Inputs *)

ScriptMaps == UNION {[D -> ScriptBodies] : D \in SUBSET ScriptNames}

Entries == [path : FolderPaths, scripts : ScriptMaps]

\* sequences of module folders with pairwise different paths
Walks ==
    {w \in UNION {[1..n -> Entries] : n \in 0..MaxModules} :
        \A i, j \in DOMAIN w : i # j => w[i].path # w[j].path}

\* c.Args().Get(0) of init: no argument, or "a"
NameArgs == {<<>>, NameA}

\* what the name prompt reads: an empty line, or the end of the input
NameLines == {<<Newline>>, <<>>}

\* what the vendor prompt reads: an empty line, "y", "n", " y", or the end
\* of the input
VendorLines ==
    {<<Newline>>, <<121, Newline>>, <<110, Newline>>, <<32, 121, Newline>>,
     <<>>}

WriteResults == {"ok", "open failed", "write failed"}

TargetExprs ==
    {Join(toks) : toks \in UNION {[1..n -> Tokens] : n \in 1..MaxTargets}}

----------------------------------------------------------------------------
(* The state machine *)

Cleared ==
    /\ ROOT = NoDir
    /\ cmd = "none"
    /\ scriptName = ""
    /\ target = <<>>
    /\ allowMissing = FALSE
    /\ dryRun = FALSE
    /\ walked = FALSE
    /\ allModules = <<>>
    /\ modules = <<>>
    /\ err = "none"
    /\ errDetail = <<>>
    /\ errDir = <<>>
    /\ execLog = <<>>
    /\ printed = <<>>

\* a repository one level below the filesystem root, with or without its
\* work.toml, and any module folders
Init ==
    /\ wd = 1
    /\ marked \in {{}, {0}}
    /\ walk \in Walks
    /\ pc = "start"
    /\ Cleared
    /\ goWork = {}
    /\ docs = [d \in marked |-> PreDoc]
    /\ history = <<>>

\* any working directory and any marking of its ancestors; no module
InitRoot ==
    /\ wd \in 0..MaxDepth
    /\ marked \in SUBSET (0..MaxDepth)
    /\ walk = <<>>
    /\ pc = "start"
    /\ Cleared
    /\ goWork = {}
    /\ docs = [d \in marked |-> PreDoc]
    /\ history = <<>>

\* NewConfig, called when the process starts
NewConfig ==
    /\ pc = "start"
    /\ LET r == getRootPath(wd, marked)
       IN  /\ ROOT' = r.root
           /\ err' = r.err
           /\ pc' = IF r.err = "none" THEN "ready" ELSE "done"
    /\ UNCHANGED <<wd, marked, walk, cmd, scriptName, target, allowMissing,
                   dryRun, walked, allModules, modules, errDetail, errDir,
                   execLog, printed, goWork, docs, history>>

\* gorepo run
Run ==
    /\ pc = "ready"
    /\ \E name \in ScriptNames \cup {""}, expr \in TargetExprs,
          am \in BOOLEAN, dr \in BOOLEAN,
          failAt \in 0..Len(walk), bashFailAt \in 0..Len(walk) :
          LET r == RunHandler(RootConfigExists(ROOT, marked), name, expr,
                              am, dr, walk, failAt, bashFailAt)
          IN  /\ cmd' = "run"
              /\ scriptName' = name
              /\ target' = expr
              /\ allowMissing' = am
              /\ dryRun' = dr
              /\ walked' = r.walked
              /\ allModules' = r.allModules
              /\ modules' = r.modules
              /\ err' = r.err
              /\ errDetail' = r.errDetail
              /\ errDir' = r.errDir
              /\ execLog' = r.execLog
    /\ pc' = "done"
    /\ UNCHANGED <<wd, marked, walk, ROOT, printed, goWork, docs, history>>

\* a working directory anywhere on the chain, at most one marked
\* directory, go.work nowhere or everywhere; no module
InitRepo ==
    /\ wd \in 0..MaxDepth
    /\ marked \in {{}} \cup {{m} : m \in 0..MaxDepth}
    /\ walk = <<>>
    /\ pc = "start"
    /\ Cleared
    /\ goWork \in {{}, 0..MaxDepth}
    /\ docs = [d \in marked |-> PreDoc]
    /\ history = <<>>

\* gorepo init
InitCommand ==
    /\ pc = "ready"
    /\ Len(history) < MaxInits
    /\ \E nameArg \in NameArgs, nameResp \in NameLines,
          vendorResp \in VendorLines, goOk \in BOOLEAN,
          writeRes \in WriteResults :
          LET r == InitHandler(RootConfigExists(ROOT, marked), nameArg,
                               nameResp, vendorResp, DirName(ROOT),
                               ROOT \in goWork, goOk, writeRes)
              mk == IF r.doc # <<>> THEN marked \cup {ROOT} ELSE marked
              ds == IF r.doc # <<>>
                    THEN [d \in mk |-> IF d = ROOT THEN r.doc[1] ELSE docs[d]]
                    ELSE docs
          IN  /\ cmd' = "init"
              /\ err' = r.err
              /\ marked' = mk
              /\ docs' = ds
              /\ goWork' = IF r.goCreated THEN goWork \cup {ROOT} ELSE goWork
              /\ history' =
                    Append(history,
                           [root |-> ROOT, err |-> r.err,
                            effects |-> r.effects,
                            doc |-> IF ROOT \in mk THEN <<ds[ROOT]>> ELSE <<>>,
                            goExisted |-> ROOT \in goWork,
                            vendorLine |-> r.vendorLine])
    /\ pc' = "done"
    /\ UNCHANGED <<wd, walk, ROOT, scriptName, target, allowMissing, dryRun,
                   walked, allModules, modules, errDetail, errDir, execLog,
                   printed>>

\* gorepo list
List ==
    /\ pc = "ready"
    /\ \E failAt \in 0..Len(walk) :
          LET r == ListHandler(RootConfigExists(ROOT, marked), walk, failAt)
          IN  /\ cmd' = "list"
              /\ walked' = r.walked
              /\ allModules' = r.allModules
              /\ err' = r.err
              /\ printed' = r.printed
    /\ pc' = "done"
    /\ UNCHANGED <<wd, marked, walk, ROOT, scriptName, target, allowMissing,
                   dryRun, modules, errDetail, errDir, execLog, goWork, docs,
                   history>>

\* the process ends; the next one starts from the same filesystem
Exit ==
    /\ pc = "done"
    /\ pc' = "start"
    /\ ROOT' = NoDir
    /\ cmd' = "none"
    /\ scriptName' = ""
    /\ target' = <<>>
    /\ allowMissing' = FALSE
    /\ dryRun' = FALSE
    /\ walked' = FALSE
    /\ allModules' = <<>>
    /\ modules' = <<>>
    /\ err' = "none"
    /\ errDetail' = <<>>
    /\ errDir' = <<>>
    /\ execLog' = <<>>
    /\ printed' = <<>>
    /\ UNCHANGED <<wd, marked, walk, goWork, docs, history>>

Next == NewConfig \/ Run \/ List \/ Exit

Spec == Init /\ [][Next]_vars

NextRoot == NewConfig \/ Exit

SpecRoot == InitRoot /\ [][NextRoot]_vars

NextInit == NewConfig \/ InitCommand \/ List \/ Exit

SpecInit == InitRepo /\ [][NextInit]_vars

----------------------------------------------------------------------------
(* Vocabulary of the properties *)

Range(s) == {s[i] : i \in DOMAIN s}

\* s <= t in bytewise lexicographic order: s is a prefix of t, or the first
\* byte at which they differ is smaller in s
NameLeq(s, t) ==
    \/ /\ Len(s) <= Len(t)
       /\ \A i \in 1..Len(s) : s[i] = t[i]
    \/ \E k \in 1..Len(s) :
          /\ k <= Len(t)
          /\ \A i \in 1..(k - 1) : s[i] = t[i]
          /\ s[k] < t[k]

Ascending(names) ==
    \A i, j \in DOMAIN names : i < j => NameLeq(names[i], names[j])

NamesOf(mods) == [i \in DOMAIN mods |-> mods[i].Name]

PathsOf(mods) == [i \in DOMAIN mods |-> mods[i].RelativePath]

\* the module has a non-empty body for the requested script
DefinesScript(m) ==
    scriptName \in DOMAIN m.Scripts /\ m.Scripts[scriptName] # ""

MissesScript(m) == ~DefinesScript(m)

SomeDefine == \E i \in DOMAIN modules : DefinesScript(modules[i])

SomeMiss == \E i \in DOMAIN modules : MissesScript(modules[i])

RanRun == pc = "done" /\ cmd = "run"

\* run got as far as resolving its targets: the monorepo exists, a script
\* name was given, the target is neither root nor rejected, discovery
\* returned without error
Classified == RanRun /\ walked /\ err # "walk"

\* NewConfig has run and no command has changed its result
Resolved == pc # "start" /\ cmd = "none"

HasMarkedAncestor == \E m \in marked : m <= wd

\* the nearest directory at or above the working directory with a marker
NearestMarked == CHOOSE m \in marked : m <= wd /\ \A n \in marked : n <= wd => n <= m

----------------------------------------------------------------------------
(* C1: in run, when some but not all targeted modules lack the script and  *)
(* allow-missing is false, the command fails with the error that lists     *)
(* exactly the modules lacking the script, and BashCommand is invoked for  *)
(* no module.                                                              *)
C1_SomeMissingRejected ==
    (Classified /\ ~allowMissing /\ SomeMiss /\ SomeDefine)
        => /\ err = "missing in some"
           /\ errDetail = NamesOf(SelectSeq(modules, MissesScript))
           /\ execLog = <<>>

C1_Witness ==
    /\ Classified /\ ~allowMissing /\ ~dryRun /\ SomeMiss /\ SomeDefine
    /\ Len(modules) = 3
    /\ err = "missing in some"
    /\ Len(errDetail) = 2

(* C2: in run, when some but not all targeted modules lack the script,     *)
(* allow-missing is true, dry-run is false and every invoked script        *)
(* succeeds, the command succeeds and BashCommand is invoked exactly once  *)
(* for each targeted module with a non-empty script, in target order, and  *)
(* never for a module that lacks it.                                       *)
C2_AllowMissingRuns ==
    (Classified /\ allowMissing /\ ~dryRun /\ SomeMiss /\ SomeDefine
        /\ err # "exec")
        => /\ err = "none"
           /\ execLog = PathsOf(SelectSeq(modules, DefinesScript))

C2_Witness ==
    /\ Classified /\ allowMissing /\ ~dryRun /\ SomeMiss /\ SomeDefine
    /\ err = "none"
    /\ Len(modules) = 3
    /\ Len(execLog) = 2

(* C3: in run, when none of the N > 0 targeted modules defines the script, *)
(* the command fails with the "missing in all modules" error and invokes   *)
(* no script, with allow-missing true as well as false.                    *)
C3_AllMissingRejected ==
    (Classified /\ Len(modules) > 0 /\ ~SomeDefine)
        => /\ err = "missing in all"
           /\ execLog = <<>>

C3_Witness ==
    /\ Classified /\ Len(modules) = 2 /\ ~SomeDefine
    /\ allowMissing /\ ~dryRun
    /\ err = "missing in all"

\* run is not rejected before its execution loop: the monorepo exists, a
\* script name is given, root is not mixed with other targets, and either
\* the target is root alone or discovery succeeds and the policy lets the
\* targeted modules through
PassesClassification ==
    /\ RootConfigExists(ROOT, marked)
    /\ scriptName # ""
    /\ LET t == Split(target)
       IN  /\ ~(RootToken \in Range(t) /\ Len(t) > 1)
           /\ \/ t[1] = RootToken
              \/ /\ walked /\ err # "walk"
                 /\ SomeDefine
                 /\ allowMissing \/ ~SomeMiss

C6_NearestMarkedRoot ==
    (Resolved /\ HasMarkedAncestor /\ wd - NearestMarked <= 7)
        => err = "none" /\ ROOT = NearestMarked

C6_Witness ==
    /\ Resolved /\ HasMarkedAncestor
    /\ wd - NearestMarked = 7
    /\ \E m \in marked : m < NearestMarked
    /\ \E m \in marked : m > wd
    /\ pc = "ready" /\ ROOT = NearestMarked

(* C7 as stated: root resolution: for a working directory more than 7      *)
(* levels below the marked root the result is the working directory and    *)
(* never an error.                                                         *)
C7_Stated ==
    (Resolved /\ HasMarkedAncestor /\ wd - NearestMarked > 7)
        => err = "none" /\ ROOT = wd

(* C7 amended: for a working directory more than 7 levels below the        *)
(* marked root the search ends at the hop limit and resolution fails with  *)
(* "root not found"; the working directory is returned as the fallback,    *)
(* without error, when the search ends at the filesystem boundary, that    *)
(* is when neither the working directory nor any ancestor is marked and    *)
(* the working directory is at most 7 levels below the filesystem root.    *)
C7_Amended ==
    Resolved
        => /\ (HasMarkedAncestor /\ wd - NearestMarked > 7)
                => err = "root not found" /\ pc = "done"
           /\ (~HasMarkedAncestor /\ wd <= 7)
                => err = "none" /\ ROOT = wd
           /\ (~HasMarkedAncestor /\ wd > 7)
                => err = "root not found" /\ pc = "done"

C7_Witness ==
    /\ Resolved /\ HasMarkedAncestor
    /\ wd - NearestMarked > 7
    /\ err = "root not found"

(* C8: module discovery: when GetModules returns without error, its        *)
(* result holds every module folder of the walk once and is ascending by   *)
(* module name, whatever the order of the walk; list prints the names in   *)
(* that order and run executes in ascending name order.                    *)
C8_DiscoverySorted ==
    (pc = "done" /\ walked /\ err # "walk")
        => /\ Len(allModules) = Len(walk)
           /\ Range(PathsOf(allModules)) = {walk[i].path : i \in DOMAIN walk}
           /\ Ascending(NamesOf(allModules))
           /\ cmd = "list" => printed = NamesOf(allModules)
           /\ cmd = "run" =>
                \A i, j \in DOMAIN execLog :
                    i < j => NameLeq(Base(execLog[i]), Base(execLog[j]))

C8_Witness ==
    /\ pc = "done" /\ cmd = "list" /\ err = "none"
    /\ Len(walk) = 3
    /\ walk[1].path = <<NameB>>
    /\ walk[2].path = <<NameX, NameA>>
    /\ printed = <<NameA, NameA, NameB>>

(* C9: target resolution for an explicit name list (no token is all or     *)
(* root): the targeted modules are the discovered modules whose name is    *)
(* one of the tokens, in discovery order; a token that matches no module   *)
(* is dropped and causes no error of its own.                              *)
C9_ExplicitList ==
    (Classified /\ \A tok \in Range(Split(target)) :
                       tok # AllToken /\ tok # RootToken)
        => LET t == Split(target)
               Named(m) == m.Name \in Range(t)
           IN  /\ modules = SelectSeq(allModules, Named)
               /\ (Len(modules) > 0 /\ ~SomeMiss) => err \in {"none", "exec"}

C9_Witness ==
    /\ Classified
    /\ target = NameB \o <<Comma>> \o NameA
    /\ Len(allModules) = 2
    /\ NameB \notin Range(NamesOf(allModules))
    /\ Len(modules) = 2
    /\ err = "none"
    /\ Len(execLog) = 2

(* C10: the token all expands to every discovered module only when it is   *)
(* the sole token; together with other tokens the targets are only the     *)
(* discovered modules whose name is one of the tokens.                     *)
C10_Stated ==
    Classified
        => LET t == Split(target)
               Named(m) == m.Name \in Range(t)
           IN  /\ t = <<AllToken>> => modules = allModules
               /\ (AllToken \in Range(t) /\ Len(t) > 1)
                    => modules = SelectSeq(allModules, Named)

\* the targeted modules with a non-empty script, in target order
Runnable == SelectSeq(modules, DefinesScript)

(* C13: script execution in run is sequential in target order with no      *)
(* retry: when the script of the k-th executed module fails, the command   *)
(* returns the error at once; the modules before it and the failing one    *)
(* have been invoked exactly once, in order, no later module is invoked,   *)
(* and the error names the failing module.                                 *)
C13_FirstFailureAborts ==
    (Classified /\ err = "exec")
        => LET k == Len(execLog)
           IN  /\ ~dryRun
               /\ k >= 1 /\ k <= Len(Runnable)
               /\ execLog = SubSeq(PathsOf(Runnable), 1, k)
               /\ errDir = Runnable[k].RelativePath

C13_Witness ==
    /\ Classified /\ err = "exec"
    /\ Len(Runnable) = 3
    /\ Len(execLog) = 2
    /\ errDir = execLog[2]

(* C16: in run, when the resolved target list is empty (no module          *)
(* discovered under all, or no token of an explicit list matches a         *)
(* module), the command fails with the "missing in all modules" error and  *)
(* invokes no script, whatever allow-missing and dry-run are.              *)
C16_EmptyTargetsRejected ==
    (Classified /\ Len(modules) = 0)
        => /\ err = "missing in all"
           /\ execLog = <<>>

C16_Witness ==
    /\ Classified /\ Len(modules) = 0
    /\ target = NameB
    /\ Len(allModules) = 2
    /\ \E i \in DOMAIN allModules : DefinesScript(allModules[i])
    /\ allowMissing /\ dryRun
    /\ err = "missing in all"

(* C11: init guard: after one successful init on a root, every later init  *)
(* resolved to the same root fails with the "already exists" error and     *)
(* changes nothing: it runs no `go work init`, writes no root document,    *)
(* and the root document is the one the successful init wrote.             *)
C11_InitGuard ==
    \A i, j \in DOMAIN history :
        (i < j /\ history[i].err = "none"
               /\ history[j].root = history[i].root)
            => /\ history[j].err = "already exists"
               /\ history[j].effects = <<>>
               /\ history[j].doc = history[i].doc
               /\ history[j].root \in marked
               /\ docs[history[j].root] = history[i].doc[1]

C11_Witness ==
    /\ pc = "done" /\ cmd = "init" /\ err = "already exists"
    /\ Len(history) = 2
    /\ history[1].err = "none"
    /\ history[1].effects = <<"go work init", "write work.toml">>
    /\ history[2].root = history[1].root
    /\ history[2].err = "already exists"

(* C12 as stated: in init, when the user answers the vendor prompt with an *)
(* empty line, the root document that is written has vendor = true.        *)
C12_Stated ==
    \A i \in DOMAIN history :
        (history[i].err = "none" /\ history[i].vendorLine = <<Newline>>)
            => history[i].doc[1].Vendor = TRUE

\* 8 directories, the working directory and its first 7 ancestors, are
\* examined without a marker and without reaching the filesystem boundary
HopLimitCase ==
    /\ wd - 7 >= 1
    /\ \A d \in (wd - 7)..wd : d \notin marked

(* C14: root resolution: when 8 directories are examined without finding   *)
(* the marker and without reaching the filesystem boundary, resolution     *)
(* fails with "root not found", NewConfig returns that error, and the      *)
(* process runs no command, init included.                                 *)
C14_RootNotFound ==
    (pc # "start" /\ HopLimitCase)
        => /\ err = "root not found"
           /\ pc = "done"
           /\ ROOT = NoDir
           /\ cmd = "none"
           /\ history = <<>>

C14_Witness ==
    /\ pc = "done" /\ HopLimitCase
    /\ wd = 8 /\ marked = {0}
    /\ err = "root not found"
    /\ cmd = "none"

(* C15: in init with the workspace strategy, `go work init` is run only    *)
(* when go.work is absent, and before the root document is written; when   *)
(* it fails, init returns the error without writing the root document, so  *)
(* the root document still does not exist and a later init on the same     *)
(* root is not rejected by the already-exists guard.                       *)
C15_WorkspaceBeforeDocument ==
    \A i \in DOMAIN history :
        LET e == history[i]
        IN  /\ "go work init" \in Range(e.effects) => ~e.goExisted
            /\ (e.err \in {"none", "go", "write"} /\ ~e.goExisted)
                  => e.effects[1] = "go work init"
            /\ \A a, b \in DOMAIN e.effects :
                  (e.effects[a] = "write work.toml"
                      /\ e.effects[b] = "go work init") => b < a
            /\ e.err = "go"
                  => /\ e.effects = <<"go work init">>
                     /\ e.doc = <<>>
                     /\ (i = Len(history)) => e.root \notin marked
                     /\ (i + 1 \in DOMAIN history
                            /\ history[i + 1].root = e.root)
                          => history[i + 1].err # "already exists"

C15_Witness ==
    /\ pc = "done" /\ cmd = "init" /\ err = "none"
    /\ Len(history) = 2
    /\ history[1].err = "go"
    /\ history[2].root = history[1].root
    /\ history[2].effects = <<"go work init", "write work.toml">>
    /\ history[2].doc # <<>>

====
